---- MODULE Spec2Model ----
(***************************************************************************)
(* Trip-detail collection of the travel planning assistant                 *)
(* (Travel_streamlit_app.py): the trip profile kept in the session state,  *)
(* the merge of extractor patches into it, the missing-field rule, the     *)
(* search step and the conversation controller that drives them.           *)
(***************************************************************************)
EXTENDS Integers, Sequences, FiniteSets, TLC

VARIABLES
    trip_details,   \* st.session_state.trip_details
    current_step,   \* st.session_state.current_step
    awaiting,       \* the field asked for in AwaitingSpecificField, else NoField
    results,        \* st.session_state.results
    last_search,    \* what the collaborators did in the search just run
    last_turn,      \* the extraction turn just taken: failed or not, model calls
    lab             \* inputs and outputs of the merge applied as a pure function

vars == <<trip_details, current_step, awaiting, results, last_search, last_turn, lab>>

conv_vars == <<trip_details, current_step, awaiting, results, last_search, last_turn>>

----------------------------------------------------------------------------
(* Bounds of the inputs *)

MaxTravelers == 2

(* traveler counts an extractor reply may carry: negative, zero, positive *)
TravelerValues == (0 - 1)..MaxTravelers

ORIGIN == "DEL"
DESTINATION == "GOI"
DEPARTURE == "2025-05-01"
RETURN == "2025-05-10"
NOT_A_DATE == "not sure yet"

ONE_WAY == "one-way"
ROUND_TRIP == "round-trip"

----------------------------------------------------------------------------
(* Profile and patches *)

ProfileKeys ==
    {"origin", "destination", "departure_date", "return_date",
     "travelers", "trip_type", "hotel_check_in", "hotel_check_out"}

PatchKeys ==
    {"origin", "destination", "departure_date", "return_date",
     "travelers", "trip_type"}

InitialTripDetails ==
    [origin |-> "", destination |-> "", departure_date |-> "",
     return_date |-> "", travelers |-> 1, trip_type |-> ONE_WAY,
     hotel_check_in |-> "", hotel_check_out |-> ""]

(* Python truthiness of a value stored under key: the traveler count is a   *)
(* number (0 is falsy), every other field is a string ("" is falsy).        *)
Truthy(key, value) ==
    IF key = "travelers" THEN value # 0 ELSE value # ""

(* dict.get(key): the value, or None (falsy) when the key is absent *)
HasValue(d, key) == key \in DOMAIN d /\ Truthy(key, d[key])

PatchValues(key) ==
    CASE key = "origin" -> {"", ORIGIN}
      [] key = "destination" -> {"", DESTINATION}
      [] key = "departure_date" -> {"", DEPARTURE}
      [] key = "return_date" -> {"", RETURN}
      [] key = "travelers" -> TravelerValues
      [] key = "trip_type" -> {"", ONE_WAY, ROUND_TRIP}

(* the ways a reply may treat one key: leave it out, or carry one value *)
KeyOptions(key, keys) ==
    IF key \in keys THEN {{}} \cup {{v} : v \in PatchValues(key)} ELSE {{}}

MakePatch(o, d, dd, r, t, tt) ==
    LET opt == [origin |-> o, destination |-> d, departure_date |-> dd,
                return_date |-> r, travelers |-> t, trip_type |-> tt]
    IN  [k \in {x \in PatchKeys : opt[x] # {}} |-> CHOOSE v \in opt[k] : TRUE]

(* every JSON object over a subset of keys, the keys the prompt asks for *)
PatchesOver(keys) ==
    {MakePatch(o, d, dd, r, t, tt) :
        o \in KeyOptions("origin", keys),
        d \in KeyOptions("destination", keys),
        dd \in KeyOptions("departure_date", keys),
        r \in KeyOptions("return_date", keys),
        t \in KeyOptions("travelers", keys),
        tt \in KeyOptions("trip_type", keys)}

Patches == PatchesOver(PatchKeys)

NoPatch == [k \in {} |-> ""]

----------------------------------------------------------------------------
(* extract_trip_details *)

(* merge that starts from a fresh profile instead of a copy of the current one *)
merge_without_copy(current_details, extracted_details) ==
    LET updated == {k \in DOMAIN extracted_details :
                        Truthy(k, extracted_details[k])}
        merged_details ==
            [k \in DOMAIN InitialTripDetails \cup updated |->
                IF k \in updated THEN extracted_details[k]
                                 ELSE InitialTripDetails[k]]
    IN  IF HasValue(extracted_details, "return_date")
        THEN [k \in DOMAIN merged_details \cup {"trip_type"} |->
                IF k = "trip_type" THEN ROUND_TRIP ELSE merged_details[k]]
        ELSE merged_details

(* merge without the return_date rule *)
merge_without_force(current_details, extracted_details) ==
    LET updated == {k \in DOMAIN extracted_details :
                        Truthy(k, extracted_details[k])}
    IN  [k \in DOMAIN current_details \cup updated |->
            IF k \in updated THEN extracted_details[k]
                             ELSE current_details[k]]

(* merge whose return_date rule reads the current details, not the reply *)
merge_stale_return(current_details, extracted_details) ==
    LET updated == {k \in DOMAIN extracted_details :
                        Truthy(k, extracted_details[k])}
        merged_details ==
            [k \in DOMAIN current_details \cup updated |->
                IF k \in updated THEN extracted_details[k]
                                 ELSE current_details[k]]
    IN  IF HasValue(current_details, "return_date")
        THEN [k \in DOMAIN merged_details \cup {"trip_type"} |->
                IF k = "trip_type" THEN ROUND_TRIP ELSE merged_details[k]]
        ELSE merged_details

(* The merge step: a copy of the current details, every truthy value of     *)
(* the reply written over it, then trip_type forced when the reply carries  *)
(* a truthy return_date.                                                    *)
merge(current_details, extracted_details) ==
    LET updated == {k \in DOMAIN extracted_details :
                        Truthy(k, extracted_details[k])}
        merged_details ==
            [k \in DOMAIN current_details \cup updated |->
                IF k \in updated THEN extracted_details[k]
                                 ELSE current_details[k]]
    IN  IF HasValue(extracted_details, "return_date")
        THEN [k \in DOMAIN merged_details \cup {"trip_type"} |->
                IF k = "trip_type" THEN ROUND_TRIP ELSE merged_details[k]]
        ELSE merged_details

(* What one call of the language model can come to: a JSON object, an      *)
(* exception of the call, text that json.loads rejects, or JSON that is    *)
(* not an object (its .items() raises).                                    *)
FailureKinds == {"call_raises", "not_json", "not_object"}

Replies ==
    [kind : {"object"}, patch : Patches] \cup [kind : FailureKinds, patch : {NoPatch}]

(* extraction whose except branch hands back a fresh profile *)
extract_trip_details_resets(reply, current_details) ==
    IF reply.kind = "object"
    THEN merge(current_details, reply.patch)
    ELSE InitialTripDetails

extract_trip_details(reply, current_details) ==
    IF reply.kind = "object"
    THEN merge(current_details, reply.patch)
    ELSE current_details

----------------------------------------------------------------------------
(* check_missing_details *)

(* return_date never appended to the required fields *)
check_missing_details_never_return(details) ==
    SelectSeq(<<"origin", "destination", "departure_date">>,
              LAMBDA field : ~HasValue(details, field))

(* return_date required whatever the trip type *)
check_missing_details_always_return(details) ==
    SelectSeq(<<"origin", "destination", "departure_date", "return_date">>,
              LAMBDA field : ~HasValue(details, field))

(* destination asked for before origin *)
check_missing_details_destination_first(details) ==
    LET trip_type == IF "trip_type" \in DOMAIN details
                     THEN details["trip_type"] ELSE ONE_WAY
        required_fields ==
            IF trip_type = ROUND_TRIP
            THEN <<"destination", "origin", "departure_date", "return_date">>
            ELSE <<"destination", "origin", "departure_date">>
    IN  SelectSeq(required_fields, LAMBDA field : ~HasValue(details, field))

check_missing_details(details) ==
    LET trip_type == IF "trip_type" \in DOMAIN details
                     THEN details["trip_type"] ELSE ONE_WAY
        required_fields ==
            IF trip_type = ROUND_TRIP
            THEN <<"origin", "destination", "departure_date", "return_date">>
            ELSE <<"origin", "destination", "departure_date">>
    IN  SelectSeq(required_fields, LAMBDA field : ~HasValue(details, field))

----------------------------------------------------------------------------
(* build_flight_payload *)

(* range(n): 0, 1, ..., n-1, empty when n is not positive *)
Range(n) == [i \in 1..n |-> i - 1]

OutboundLeg(details) ==
    [id |-> "1",
     originLocationCode |-> details.origin,
     destinationLocationCode |-> details.destination,
     date |-> details.departure_date,
     time |-> "10:00:00"]

ReturnLeg(details) ==
    [id |-> "2",
     originLocationCode |-> details.destination,
     destinationLocationCode |-> details.origin,
     date |-> details.return_date,
     time |-> "10:00:00"]

(* payload whose cabin restriction always names both legs *)
build_flight_payload_both_ids(details) ==
    [originDestinations |->
        IF details.trip_type = ROUND_TRIP /\ HasValue(details, "return_date")
        THEN <<OutboundLeg(details), ReturnLeg(details)>>
        ELSE <<OutboundLeg(details)>>,
     travelers |->
        [i \in 1..Len(Range(details.travelers)) |->
            [id |-> ToString(Range(details.travelers)[i] + 1),
             travelerType |-> "ADULT"]],
     originDestinationIds |-> <<"1", "2">>]

build_flight_payload(details) ==
    [originDestinations |->
        IF details.trip_type = ROUND_TRIP /\ HasValue(details, "return_date")
        THEN <<OutboundLeg(details), ReturnLeg(details)>>
        ELSE <<OutboundLeg(details)>>,
     travelers |->
        [i \in 1..Len(Range(details.travelers)) |->
            [id |-> ToString(Range(details.travelers)[i] + 1),
             travelerType |-> "ADULT"]],
     originDestinationIds |->
        IF details.trip_type = ROUND_TRIP THEN <<"1", "2">> ELSE <<"1">>]

----------------------------------------------------------------------------
(* gather_trip_results *)

None == "<None>"
FLIGHTS_MARKDOWN == "### Your Flight Options"
HOTELS_MARKDOWN == "### Your Hotel Options"
DUMMY_HOTELS_MARKDOWN == "### Your Hotel Options (dummy_hotels)"
RECOMMENDATIONS_TEXT == "response.text"
APOLOGY_TEXT == "I'd love to tell you more"

InitialResults == [flights |-> None, hotels |-> None, recommendations |-> None]

(* datetime.strptime(value, "%Y-%m-%d") succeeds *)
IsDate(value) == value \in {DEPARTURE, RETURN}

(* What the collaborators do during one search.  token: the token request  *)
(* answers with an access token, answers without one, or fails.  flights,  *)
(* hotels and recommendations: data, or a failed call (HTTP error or       *)
(* exception).  Provider data is taken to be well formed.  Without an      *)
(* access token neither Amadeus call can succeed.                          *)
SearchEnvs ==
    {e \in [token : {"ok", "no_access_token", "failed"},
            flights : {"offers", "failed"},
            hotels : {"offers", "failed"},
            recommendations : {"text", "failed"}] :
        e.token # "ok" => e.flights = "failed" /\ e.hotels = "failed"}

gather_trip_results(details, env) ==
    LET token_data == env.token # "failed"
        token == env.token = "ok"
        flights == IF token /\ env.flights = "offers"
                   THEN FLIGHTS_MARKDOWN ELSE None
        wants_hotels == token_data /\ HasValue(details, "destination")
        strptime_raises ==
            /\ wants_hotels
            /\ ~HasValue(details, "return_date")
            /\ ~IsDate(details["departure_date"])
        hotels == IF ~token THEN None
                  ELSE IF env.hotels = "offers" THEN HOTELS_MARKDOWN
                  ELSE DUMMY_HOTELS_MARKDOWN
        wants_recommendations == HasValue(details, "destination")
        recommendations == IF env.recommendations = "text"
                           THEN RECOMMENDATIONS_TEXT ELSE APOLOGY_TEXT
        raised == strptime_raises
        attempted ==
            (IF token_data THEN {"flights"} ELSE {})
            \cup (IF wants_hotels /\ ~raised THEN {"hotels"} ELSE {})
            \cup (IF wants_recommendations /\ ~raised
                  THEN {"recommendations"} ELSE {})
    IN  [raised |-> raised,
         attempted |-> attempted,
         failed |-> {k \in attempted : env[k] = "failed"},
         results |-> [k \in attempted |->
                        CASE k = "flights" -> flights
                          [] k = "hotels" -> hotels
                          [] k = "recommendations" -> recommendations]]

(* results.get(key) as show_trip_results tests it *)
Populated(res, key) == key \in DOMAIN res /\ res[key] # None

----------------------------------------------------------------------------
(* Conversation controller *)

CollectingDetails == "welcome"
AwaitingSpecificField == "AwaitingSpecificField"
Searching == "Searching"
ResultsReady == "ResultsReady"
FollowUp == "FollowUp"

NoField == "<none>"

(* raw user text typed as the answer to a specific question *)
Utterances == {DEPARTURE, NOT_A_DATE}

NoSearch == [token |-> "<none>", raised |-> FALSE, attempted |-> {}, failed |-> {}]
NoTurn == [failed |-> FALSE, calls |-> 0]
LabIdle == [stage |-> "idle"]

(* after the profile changed: ask for the head of the missing fields, or search *)
Advance(details) ==
    LET missing == check_missing_details(details)
    IN  IF missing # <<>>
        THEN /\ current_step' = AwaitingSpecificField
             /\ awaiting' = Head(missing)
        ELSE /\ current_step' = Searching
             /\ awaiting' = NoField

ConvInit ==
    /\ trip_details = InitialTripDetails
    /\ current_step = CollectingDetails
    /\ awaiting = NoField
    /\ results = InitialResults
    /\ last_search = NoSearch
    /\ last_turn = NoTurn

Init ==
    /\ ConvInit
    /\ lab = LabIdle

(* CollectingDetails, the model answers with a JSON object *)
ExtractionSucceeds ==
    /\ current_step = CollectingDetails
    /\ \E patch \in Patches :
       LET reply == [kind |-> "object", patch |-> patch]
           merged == extract_trip_details(reply, trip_details)
       IN  /\ trip_details' = merged
           /\ Advance(merged)
           /\ last_turn' = [failed |-> FALSE, calls |-> 1]
    /\ last_search' = NoSearch
    /\ UNCHANGED <<results, lab>>

(* CollectingDetails, the extraction fails: reprompt *)
ExtractionFails ==
    /\ current_step = CollectingDetails
    /\ \E kind \in FailureKinds :
       LET reply == [kind |-> kind, patch |-> NoPatch]
       IN  /\ trip_details' = extract_trip_details(reply, trip_details)
           /\ last_turn' = [failed |-> TRUE, calls |-> 1]
    /\ last_search' = NoSearch
    /\ UNCHANGED <<current_step, awaiting, results, lab>>

(* AwaitingSpecificField(f): the utterance is the value of f, verbatim *)
AnswerField ==
    /\ current_step = AwaitingSpecificField
    /\ \E utterance \in Utterances :
       LET answered == [trip_details EXCEPT ![awaiting] = utterance]
       IN  /\ trip_details' = answered
           /\ Advance(answered)
    /\ last_turn' = NoTurn
    /\ last_search' = NoSearch
    /\ UNCHANGED <<results, lab>>

(* Searching: the three searches; an exception falls back to CollectingDetails *)
Search ==
    /\ current_step = Searching
    /\ \E env \in SearchEnvs :
       LET out == gather_trip_results(trip_details, env)
       IN  /\ last_search' = [token |-> env.token, raised |-> out.raised,
                              attempted |-> out.attempted,
                              failed |-> out.failed]
           /\ IF out.raised
              THEN /\ current_step' = CollectingDetails
                   /\ UNCHANGED results
              ELSE /\ current_step' = ResultsReady
                   /\ results' = out.results
    /\ last_turn' = NoTurn
    /\ UNCHANGED <<trip_details, awaiting, lab>>

(* ResultsReady: the next utterance moves to FollowUp *)
ResultsUtterance ==
    /\ current_step = ResultsReady
    /\ current_step' = FollowUp
    /\ last_search' = NoSearch
    /\ UNCHANGED <<trip_details, awaiting, results, last_turn, lab>>

(* FollowUp: an affirmative or "another trip" utterance *)
FollowUpAnotherTrip ==
    /\ current_step = FollowUp
    /\ trip_details' = InitialTripDetails
    /\ current_step' = CollectingDetails
    /\ UNCHANGED <<awaiting, results, last_search, last_turn, lab>>

(* FollowUp: any other utterance is acknowledged *)
FollowUpOther ==
    /\ current_step = FollowUp
    /\ UNCHANGED vars

(* button that goes back to the first step but keeps the old profile *)
StartNewTrip_keeps_profile ==
    /\ HasValue(trip_details, "destination")
    /\ current_step # Searching
    /\ current_step' = CollectingDetails
    /\ awaiting' = NoField
    /\ last_turn' = NoTurn
    /\ last_search' = NoSearch
    /\ UNCHANGED <<trip_details, results, lab>>

(* sidebar button, drawn once a destination is known *)
StartNewTrip ==
    /\ HasValue(trip_details, "destination")
    /\ current_step # Searching
    /\ trip_details' = InitialTripDetails
    /\ current_step' = CollectingDetails
    /\ awaiting' = NoField
    /\ last_turn' = NoTurn
    /\ last_search' = NoSearch
    /\ UNCHANGED <<results, lab>>

Next ==
    \/ ExtractionSucceeds
    \/ ExtractionFails
    \/ AnswerField
    \/ Search
    \/ ResultsUtterance
    \/ FollowUpAnotherTrip
    \/ FollowUpOther
    \/ StartNewTrip

Spec == Init /\ [][Next]_vars

----------------------------------------------------------------------------
(* The merge as a pure function: a profile, two replies over disjoint keys *)

LabProfiles ==
    [origin : {"", ORIGIN}, destination : {""},
     departure_date : {""}, return_date : {"", RETURN},
     travelers : {1}, trip_type : {ONE_WAY, ROUND_TRIP},
     hotel_check_in : {""}, hotel_check_out : {""}]

MergeInit ==
    /\ ConvInit
    /\ \E base \in LabProfiles : lab = [stage |-> "input", base |-> base]

ApplyPatches ==
    /\ lab.stage = "input"
    /\ \E pa \in Patches :
        \E pb \in PatchesOver(PatchKeys \ DOMAIN pa) :
            lab' = [stage |-> "merged",
                    base |-> lab.base,
                    pa |-> pa,
                    pb |-> pb,
                    once |-> merge(lab.base, pa),
                    twice |-> merge(merge(lab.base, pa), pa),
                    ab |-> merge(merge(lab.base, pa), pb),
                    ba |-> merge(merge(lab.base, pb), pa)]
    /\ UNCHANGED conv_vars

MergeNext == ApplyPatches

MergeSpec == MergeInit /\ [][MergeNext]_vars

----------------------------------------------------------------------------
(* Properties of the merge (MergeSpec) *)

Merged == lab.stage = "merged"

AllNonEmpty(patch) == \A k \in DOMAIN patch : Truthy(k, patch[k])

Disjoint(pa, pb) == DOMAIN pa \cap DOMAIN pb = {}

(* C1, as stated: for a patch whose fields are all non-empty, the merged   *)
(* profile agrees with the profile on every field the patch omits.         *)
C1_NonOverwrite ==
    (Merged /\ AllNonEmpty(lab.pa)) =>
        \A k \in DOMAIN lab.base \ DOMAIN lab.pa :
            k \in DOMAIN lab.once /\ lab.once[k] = lab.base[k]

(* C1, amended: for a patch whose fields are all non-empty, the merged     *)
(* profile agrees with the profile on every field the patch omits, except  *)
(* trip_type, which is round-trip when the patch carries a return_date.    *)
C1_NonOverwriteButTripType ==
    (Merged /\ AllNonEmpty(lab.pa)) =>
        \A k \in DOMAIN lab.base \ DOMAIN lab.pa :
            /\ k \in DOMAIN lab.once
            /\ lab.once[k] = IF k = "trip_type" /\ "return_date" \in DOMAIN lab.pa
                             THEN ROUND_TRIP
                             ELSE lab.base[k]

C1_Witness ==
    /\ Merged
    /\ AllNonEmpty(lab.pa)
    /\ DOMAIN lab.pa = {"destination", "return_date"}
    /\ lab.base.origin = ORIGIN
    /\ lab.base.trip_type = ONE_WAY
    /\ lab.once.origin = ORIGIN
    /\ lab.once.trip_type = ROUND_TRIP

(* C2: a merge of a patch with a non-empty return_date yields a round-trip *)
(* profile, whatever trip_type the profile had and the patch carries.      *)
C2_ReturnForcesRoundTrip ==
    (Merged /\ HasValue(lab.pa, "return_date")) =>
        lab.once.trip_type = ROUND_TRIP

C2_Witness ==
    /\ Merged
    /\ HasValue(lab.pa, "return_date")
    /\ HasValue(lab.pa, "trip_type")
    /\ lab.pa.trip_type = ONE_WAY
    /\ lab.base.trip_type = ONE_WAY
    /\ lab.once.trip_type = ROUND_TRIP

(* C8, as stated: merging two patches with no field in common gives the    *)
(* same profile in either order.                                           *)
C8_DisjointCommute ==
    (Merged /\ Disjoint(lab.pa, lab.pb)) => lab.ab = lab.ba

(* one patch sets a return_date, the other a trip type that is not round-trip *)
ReturnAgainstTripType(pa, pb) ==
    /\ HasValue(pa, "return_date")
    /\ HasValue(pb, "trip_type")
    /\ pb.trip_type # ROUND_TRIP

(* C8, amended: merging two patches with no field in common gives the same *)
(* profile in either order, unless one carries a non-empty return_date and *)
(* the other a non-empty trip_type other than round-trip.                  *)
C8_DisjointCommuteButReturn ==
    (/\ Merged
     /\ Disjoint(lab.pa, lab.pb)
     /\ ~ReturnAgainstTripType(lab.pa, lab.pb)
     /\ ~ReturnAgainstTripType(lab.pb, lab.pa)) => lab.ab = lab.ba

C8_Witness ==
    /\ Merged
    /\ Disjoint(lab.pa, lab.pb)
    /\ HasValue(lab.pa, "return_date")
    /\ HasValue(lab.pb, "origin")
    /\ HasValue(lab.pb, "trip_type")
    /\ lab.pb.trip_type = ROUND_TRIP
    /\ lab.base.origin = ""
    /\ lab.base.return_date = ""
    /\ lab.ab = lab.ba
    /\ lab.ab.origin = ORIGIN
    /\ lab.ab.return_date = RETURN

(* C9: merging the same patch a second time changes nothing. *)
C9_Idempotent ==
    Merged => lab.twice = lab.once

C9_Witness ==
    /\ Merged
    /\ HasValue(lab.pa, "return_date")
    /\ HasValue(lab.pa, "trip_type")
    /\ lab.pa.trip_type = ONE_WAY
    /\ lab.base.return_date = ""
    /\ lab.once # lab.base
    /\ lab.twice = lab.once

----------------------------------------------------------------------------
(* Properties of the conversation (Spec) *)

(* the fields completeness depends on, from the profile's trip type *)
RequiredFields(profile) ==
    {"origin", "destination", "departure_date"}
    \cup (IF profile.trip_type = ROUND_TRIP THEN {"return_date"} ELSE {})

is_complete(profile) ==
    /\ profile.origin # ""
    /\ profile.destination # ""
    /\ profile.departure_date # ""
    /\ profile.trip_type = ROUND_TRIP => profile.return_date # ""

(* C3: the controller is in Searching only when no required field of the   *)
(* current profile is empty.                                               *)
C3_SearchingOnlyWhenNothingMissing ==
    current_step = Searching =>
        \A f \in RequiredFields(trip_details) : trip_details[f] # ""

C3_Witness ==
    /\ current_step = Searching
    /\ trip_details.trip_type = ROUND_TRIP
    /\ trip_details.return_date = NOT_A_DATE
    /\ trip_details.origin = ORIGIN

(* C4: the profile is complete exactly when check_missing_details returns  *)
(* the empty list, and the traveler count changes neither.                 *)
C4_CompleteIffNothingMissing ==
    /\ is_complete(trip_details) <=> check_missing_details(trip_details) = <<>>
    /\ \A t \in TravelerValues :
        LET other == [trip_details EXCEPT !.travelers = t]
        IN  /\ check_missing_details(other) = check_missing_details(trip_details)
            /\ is_complete(other) <=> is_complete(trip_details)

C4_Witness ==
    /\ trip_details.trip_type = ROUND_TRIP
    /\ trip_details.return_date = ""
    /\ trip_details.origin # ""
    /\ trip_details.destination # ""
    /\ trip_details.departure_date # ""
    /\ trip_details.travelers = MaxTravelers
    /\ ~is_complete(trip_details)

FieldOrder == <<"origin", "destination", "departure_date", "return_date">>

Rank(field) == CHOOSE i \in 1..Len(FieldOrder) : FieldOrder[i] = field

(* C5: check_missing_details lists exactly the empty fields among origin,  *)
(* destination, departure_date and return_date, in that order, and         *)
(* return_date only for a round-trip profile.                              *)
C5_MissingFieldsOrdered ==
    LET missing == check_missing_details(trip_details)
        listed == {missing[i] : i \in 1..Len(missing)}
    IN  /\ listed = {f \in RequiredFields(trip_details) : trip_details[f] = ""}
        /\ \A i \in 1..Len(missing) : \A j \in 1..Len(missing) :
              i < j => Rank(missing[i]) < Rank(missing[j])
        /\ trip_details.trip_type # ROUND_TRIP => "return_date" \notin listed

C5_Witness ==
    /\ trip_details.trip_type = ONE_WAY
    /\ trip_details.return_date = ""
    /\ trip_details.destination = DESTINATION
    /\ check_missing_details(trip_details) = <<"origin", "departure_date">>
    /\ current_step = AwaitingSpecificField
    /\ awaiting = "origin"

Searches == {"flights", "hotels", "recommendations"}

(* C6, as stated: after a search in which exactly one of the three         *)
(* sub-searches failed, the machine is in ResultsReady with all three      *)
(* attempted, the failed one recorded as empty and the other two populated. *)
C6_PartialFailure ==
    (/\ current_step = ResultsReady
     /\ last_search.token = "ok"
     /\ Cardinality(last_search.failed) = 1) =>
        /\ last_search.attempted = Searches
        /\ \A k \in last_search.failed : ~Populated(results, k)
        /\ \A k \in Searches \ last_search.failed : Populated(results, k)

(* C7: a failed extraction leaves the profile as it was and the controller *)
(* in CollectingDetails, after a single call of the model.                 *)
C7_FailedExtractionKeepsProfile ==
    [][ExtractionFails =>
          /\ trip_details' = trip_details
          /\ current_step' = CollectingDetails
          /\ last_turn'.calls = 1]_vars

C7_Witness ==
    /\ last_turn.failed
    /\ last_turn.calls = 1
    /\ current_step = CollectingDetails
    /\ trip_details.departure_date = NOT_A_DATE
    /\ trip_details.destination = DESTINATION

(* C10, as stated: the traveler count of the profile is at least 1. *)
C10_TravelersAtLeastOne ==
    trip_details.travelers >= 1

(* C11, as stated: a search, once begun, runs to completion: every step    *)
(* out of Searching stores the results and ends in ResultsReady, whatever  *)
(* the field values of the complete profile.                               *)
C11_SearchRunsToCompletion ==
    [][current_step = Searching => current_step' = ResultsReady]_vars

(* the required fields of the profile that are empty *)
EmptyRequired(profile) ==
    {f \in RequiredFields(profile) : profile[f] = ""}

(* the empty required field that comes first in the fixed order *)
FirstMissing(profile) ==
    CHOOSE f \in EmptyRequired(profile) :
        \A g \in EmptyRequired(profile) : Rank(f) <= Rank(g)

(* the step the controller takes after the profile changed to profile' *)
MovesOn ==
    IF EmptyRequired(trip_details') = {}
    THEN /\ current_step' = Searching
    ELSE /\ current_step' = AwaitingSpecificField
         /\ awaiting' = FirstMissing(trip_details')

(* C12: in AwaitingSpecificField(f) the utterance becomes the value of f   *)
(* as typed, without a call of the model, no other field changes, and the  *)
(* controller then asks for the first field still missing, or searches.    *)
C12_AnswerWrittenVerbatim ==
    [][AnswerField =>
          /\ trip_details'[awaiting] \in Utterances
          /\ \A k \in DOMAIN trip_details \ {awaiting} :
                trip_details'[k] = trip_details[k]
          /\ DOMAIN trip_details' = DOMAIN trip_details
          /\ last_turn'.calls = 0
          /\ MovesOn]_vars

C12_Witness ==
    /\ current_step = Searching
    /\ last_turn.calls = 0
    /\ trip_details.departure_date = NOT_A_DATE
    /\ trip_details.origin = ORIGIN
    /\ trip_details.destination = DESTINATION

(* C13: after a successful extraction in CollectingDetails the controller  *)
(* asks for the first missing field of the merged profile, or searches     *)
(* when nothing is missing.                                                *)
C13_ExtractionMovesOn ==
    [][(/\ current_step = CollectingDetails
        /\ last_turn' = [failed |-> FALSE, calls |-> 1]) => MovesOn]_vars

C13_Witness ==
    /\ current_step = Searching
    /\ last_turn = [failed |-> FALSE, calls |-> 1]
    /\ trip_details = [InitialTripDetails EXCEPT !.origin = ORIGIN,
                                                 !.destination = DESTINATION,
                                                 !.departure_date = DEPARTURE,
                                                 !.travelers = MaxTravelers]

(* the profile as a conversation starts with it *)
IsEmptyProfile(profile) ==
    /\ profile.origin = ""
    /\ profile.destination = ""
    /\ profile.departure_date = ""
    /\ profile.return_date = ""
    /\ profile.travelers = 1
    /\ profile.trip_type = ONE_WAY

(* steps that take the conversation towards CollectingDetails *)
Progress ==
    \/ AnswerField
    \/ Search
    \/ ResultsUtterance
    \/ FollowUpAnotherTrip

(* how many Progress steps at most separate a state from CollectingDetails *)
StepsToCollecting(step, profile) ==
    CASE step = CollectingDetails -> 0
      [] step = FollowUp -> 1
      [] step = ResultsReady -> 2
      [] step = Searching -> 3
      [] step = AwaitingSpecificField -> 3 + Cardinality(EmptyRequired(profile))

(* C14: the button and an "another trip" utterance in FollowUp reset the   *)
(* profile to its initial value and return to CollectingDetails; any other *)
(* utterance in FollowUp changes neither; and no state is terminal: away   *)
(* from CollectingDetails a step towards it is always enabled, and each    *)
(* such step brings it nearer.                                             *)
C14_NewTripResetsAndNoTerminalState ==
    /\ [][(StartNewTrip \/ FollowUpAnotherTrip) =>
             /\ IsEmptyProfile(trip_details')
             /\ current_step' = CollectingDetails]_vars
    /\ [][FollowUpOther =>
             /\ trip_details' = trip_details
             /\ current_step' = FollowUp]_vars
    /\ [](current_step # CollectingDetails => ENABLED Progress)
    /\ [][Progress => StepsToCollecting(current_step', trip_details')
                        < StepsToCollecting(current_step, trip_details)]_vars

C14_Witness ==
    /\ current_step = CollectingDetails
    /\ IsEmptyProfile(trip_details)
    /\ Populated(results, "recommendations")
    /\ last_turn = NoTurn

(* C15: at the moment of a search the flight payload has a return leg     *)
(* (id "2", origin and destination swapped, dated return_date) exactly     *)
(* when the profile is round-trip with a return_date, and the cabin        *)
(* restriction names only legs that are in the payload.                    *)
C15_PayloadSelfConsistent ==
    current_step = Searching =>
        LET payload == build_flight_payload(trip_details)
            legs == payload.originDestinations
            leg_ids == {legs[i].id : i \in 1..Len(legs)}
            named == payload.originDestinationIds
        IN  /\ "2" \in leg_ids <=>
                  (trip_details.trip_type = ROUND_TRIP
                   /\ trip_details.return_date # "")
            /\ \A i \in 1..Len(legs) :
                  legs[i].id = "2" =>
                      /\ legs[i].originLocationCode = trip_details.destination
                      /\ legs[i].destinationLocationCode = trip_details.origin
                      /\ legs[i].date = trip_details.return_date
            /\ \A j \in 1..Len(named) : named[j] \in leg_ids

C15_Witness ==
    /\ current_step = Searching
    /\ trip_details.trip_type = ROUND_TRIP
    /\ trip_details.return_date = RETURN
    /\ trip_details.origin = ORIGIN
    /\ trip_details.destination = DESTINATION
    /\ Len(build_flight_payload(trip_details).originDestinations) = 2
    /\ build_flight_payload(trip_details).originDestinationIds = <<"1", "2">>

====
